---- MODULE Spec2Model ----
(***************************************************************************)
(* Model of src/src/proxy-server.ts (the blacklist proxy, lines 1-272):    *)
(* the rule compiler (buildRuleFromLine), the rule store (access and       *)
(* loadLists), the HTTP access-control middleware, the /health handler and *)
(* the CONNECT tunnel handler with its socket callbacks.                   *)
(*                                                                         *)
(* Strings are sequences of one-character strings, so that trim, slice,    *)
(* startsWith, includes ... are computed as the JavaScript methods compute *)
(* them.  Node runs every callback to completion on one thread, so each    *)
(* handler is one action.                                                  *)
(***************************************************************************)
EXTENDS Integers, Sequences, FiniteSets, TLC

(***************************************************************************)
(* Bounds of the model.                                                    *)
(***************************************************************************)
\* longest rule file, in lines, that a load reads
MaxLines == 2
\* no file change is delivered once access.version has this value
MaxVersion == 2
\* number of CONNECT requests accepted
MaxConns == 2
\* longest rule file, in lines, of the evaluation specification
MaxEvalLines == 2
\* longest rule file, in lines, of the rule-syntax specification
MaxRuleLines == 2
\* longest rule file, in lines, of the compilation specification
MaxCompileLines == 2

(***************************************************************************)
(* JavaScript string methods.                                              *)
(***************************************************************************)
UpperCase == <<"A", "B", "C", "P">>
LowerCase == <<"a", "b", "c", "p">>

\* one character of String.prototype.toLowerCase
LowerChar(ch) ==
    IF \E i \in 1..Len(UpperCase) : UpperCase[i] = ch
    THEN LowerCase[CHOOSE i \in 1..Len(UpperCase) : UpperCase[i] = ch]
    ELSE ch

toLowerCase(s) == [i \in 1..Len(s) |-> LowerChar(s[i])]

WhiteSpace == {" ", "\t"}

RECURSIVE trimStart(_)
trimStart(s) ==
    IF s # <<>> /\ Head(s) \in WhiteSpace THEN trimStart(Tail(s)) ELSE s

RECURSIVE trimEnd(_)
trimEnd(s) ==
    IF s # <<>> /\ s[Len(s)] \in WhiteSpace
    THEN trimEnd(SubSeq(s, 1, Len(s) - 1))
    ELSE s

trim(s) == trimEnd(trimStart(s))

startsWith(s, p) == Len(p) <= Len(s) /\ SubSeq(s, 1, Len(p)) = p

endsWith(s, p) ==
    Len(p) <= Len(s) /\ SubSeq(s, Len(s) - Len(p) + 1, Len(s)) = p

includes(s, n) ==
    \E i \in 0..(Len(s) - Len(n)) : SubSeq(s, i + 1, i + Len(n)) = n

\* String.prototype.indexOf for a one-character needle: 0-based, -1 if absent
indexOf(s, ch) ==
    IF \E i \in 1..Len(s) : s[i] = ch
    THEN (CHOOSE i \in 1..Len(s) : s[i] = ch /\ \A j \in 1..(i - 1) : s[j] # ch) - 1
    ELSE -1

\* s.slice(from) and s.slice(from, to) for 0 <= from <= to <= length
sliceFrom(s, from) == SubSeq(s, from + 1, Len(s))
slice(s, from, to) == SubSeq(s, from + 1, to)

(***************************************************************************)
(* The rule compiler.                                                      *)
(***************************************************************************)
RuleKind == {"host-substring", "host-exact-path", "host-subtree-path", "subdomain"}

\* the value null
NoRule == [kind |-> "null"]

\* a BlacklistRule; path is <<>> where the code leaves it undefined
BlacklistRule(raw, kind, host, path) ==
    [raw |-> raw, kind |-> kind, host |-> host, path |-> path]

\* the compiler keeping the letter-case of the host part of a line
buildRuleFromLineCaseSensitive(line) ==
    LET raw == trim(line) IN
    IF raw = <<>> THEN NoRule
    ELSE IF startsWith(raw, <<"*", ".">>)
    THEN BlacklistRule(raw, "subdomain", sliceFrom(raw, 2), <<>>)
    ELSE LET slashIndex == indexOf(raw, "/") IN
         IF slashIndex # -1
         THEN LET hostPart == slice(raw, 0, slashIndex)
                  pathPart == sliceFrom(raw, slashIndex)
              IN  IF endsWith(pathPart, <<"*">>)
                  THEN BlacklistRule(raw, "host-subtree-path", hostPart,
                                     slice(pathPart, 0, Len(pathPart) - 1))
                  ELSE BlacklistRule(raw, "host-exact-path", hostPart, pathPart)
         ELSE BlacklistRule(raw, "host-substring", raw, <<>>)

buildRuleFromLine(line) ==
    LET raw == trim(line) IN
    IF raw = <<>> THEN NoRule
    ELSE IF startsWith(raw, <<"*", ".">>)
    THEN BlacklistRule(raw, "subdomain", toLowerCase(sliceFrom(raw, 2)), <<>>)
    ELSE LET slashIndex == indexOf(raw, "/") IN
         IF slashIndex # -1
         THEN LET hostPart == toLowerCase(slice(raw, 0, slashIndex))
                  pathPart == sliceFrom(raw, slashIndex)
              IN  IF endsWith(pathPart, <<"*">>)
                  THEN BlacklistRule(raw, "host-subtree-path", hostPart,
                                     slice(pathPart, 0, Len(pathPart) - 1))
                  ELSE BlacklistRule(raw, "host-exact-path", hostPart, pathPart)
         ELSE BlacklistRule(raw, "host-substring", toLowerCase(raw), <<>>)

\* the closures with the subdomain test comparing the suffix without its dot
testSubdomainNoDot(rule, hostLower, requestPath) ==
    CASE rule.kind = "subdomain" ->
            endsWith(hostLower, rule.host)
      [] rule.kind = "host-subtree-path" ->
            hostLower = rule.host /\ startsWith(requestPath, rule.path)
      [] rule.kind = "host-exact-path" ->
            hostLower = rule.host /\ requestPath = rule.path
      [] rule.kind = "host-substring" ->
            includes(hostLower, rule.host)

\* the closures with the exact-path test accepting every path that begins
\* with the rule path
testExactAsPrefix(rule, hostLower, requestPath) ==
    CASE rule.kind = "subdomain" ->
            IF hostLower = rule.host THEN FALSE
            ELSE endsWith(hostLower, <<".">> \o rule.host)
      [] rule.kind = "host-subtree-path" ->
            hostLower = rule.host /\ startsWith(requestPath, rule.path)
      [] rule.kind = "host-exact-path" ->
            hostLower = rule.host /\ startsWith(requestPath, rule.path)
      [] rule.kind = "host-substring" ->
            includes(hostLower, rule.host)

\* rule.test(hostLower, pathPart): the closure each kind of rule carries
test(rule, hostLower, requestPath) ==
    CASE rule.kind = "subdomain" ->
            IF hostLower = rule.host THEN FALSE
            ELSE endsWith(hostLower, <<".">> \o rule.host)
      [] rule.kind = "host-subtree-path" ->
            hostLower = rule.host /\ startsWith(requestPath, rule.path)
      [] rule.kind = "host-exact-path" ->
            hostLower = rule.host /\ requestPath = rule.path
      [] rule.kind = "host-substring" ->
            includes(hostLower, rule.host)

(***************************************************************************)
(* The rule file as one read of it sees it.                                *)
(*   missing    : fs.existsSync(BLACKLIST_FILE) is false                   *)
(*   unreadable : the file exists and fs.readFileSync throws               *)
(*   text       : the file's text, already split at /\r?\n/ into lines     *)
(***************************************************************************)
MissingFile == [kind |-> "missing", lines |-> <<>>]
UnreadableFile == [kind |-> "unreadable", lines |-> <<>>]
TextFile(ls) == [kind |-> "text", lines |-> ls]
\* no read yet: the store as constructed at line 32
NoRead == [kind |-> "none", lines |-> <<>>]

\* .map(l => l.trim()).filter(Boolean).filter(l => !l.startsWith('#'))
RECURSIVE filterLines(_)
filterLines(ls) ==
    IF ls = <<>> THEN <<>>
    ELSE LET l == trim(Head(ls)) IN
         IF l = <<>> \/ startsWith(l, <<"#">>)
         THEN filterLines(Tail(ls))
         ELSE <<l>> \o filterLines(Tail(ls))

\* for (const line of lines) { const rule = buildRuleFromLine(line); if (rule) rules.push(rule); }
RECURSIVE pushRules(_)
pushRules(ls) ==
    IF ls = <<>> THEN <<>>
    ELSE LET rule == buildRuleFromLine(Head(ls)) IN
         IF rule = NoRule THEN pushRules(Tail(ls))
         ELSE <<rule>> \o pushRules(Tail(ls))

\* the local array `rules` of loadLists at the moment it is published
compileRules(file) ==
    IF file.kind = "text" THEN pushRules(filterLines(file.lines)) ELSE <<>>

(***************************************************************************)
(* The two rule loops.  Each returns the index in `rules` of the rule whose *)
(* test returned true and ended the loop, 0 when the loop ran to its end.   *)
(***************************************************************************)
\* the loop run from the last rule to the first
RECURSIVE httpRuleLoopLastMatch(_, _, _, _)
httpRuleLoopLastMatch(rules, i, hostHeaderLower, pathPart) ==
    LET k == Len(rules) + 1 - i IN
    IF i > Len(rules) THEN 0
    ELSE IF test(rules[k], hostHeaderLower, pathPart) THEN k
    ELSE httpRuleLoopLastMatch(rules, i + 1, hostHeaderLower, pathPart)

RECURSIVE httpRuleLoop(_, _, _, _)
httpRuleLoop(rules, i, hostHeaderLower, pathPart) ==
    IF i > Len(rules) THEN 0
    ELSE IF test(rules[i], hostHeaderLower, pathPart) THEN i
    ELSE httpRuleLoop(rules, i + 1, hostHeaderLower, pathPart)

\* the loop with the host of a path rule applied in place of the skip
RECURSIVE connectRuleLoopHostOfPathRule(_, _, _)
connectRuleLoopHostOfPathRule(rules, i, targetHostLower) ==
    IF i > Len(rules) THEN 0
    ELSE IF rules[i].kind \in {"host-exact-path", "host-subtree-path"}
    THEN IF targetHostLower = rules[i].host THEN i
         ELSE connectRuleLoopHostOfPathRule(rules, i + 1, targetHostLower)
    ELSE IF test(rules[i], targetHostLower, <<>>) THEN i
    ELSE connectRuleLoopHostOfPathRule(rules, i + 1, targetHostLower)

RECURSIVE connectRuleLoop(_, _, _)
connectRuleLoop(rules, i, targetHostLower) ==
    IF i > Len(rules) THEN 0
    ELSE IF rules[i].kind \in {"host-exact-path", "host-subtree-path"}
    THEN connectRuleLoop(rules, i + 1, targetHostLower)
    ELSE IF test(rules[i], targetHostLower, <<>>) THEN i
    ELSE connectRuleLoop(rules, i + 1, targetHostLower)

(***************************************************************************)
(* CONNECT target parsing.                                                 *)
(***************************************************************************)
\* reqUrl.split(':')
RECURSIVE split(_, _)
split(s, sep) ==
    LET i == indexOf(s, sep) IN
    IF i = -1 THEN <<s>>
    ELSE <<slice(s, 0, i)>> \o split(sliceFrom(s, i + 1), sep)

Digits == <<"0", "1", "2", "3", "4", "5", "6", "7", "8", "9">>
DigitValue(ch) == (CHOOSE i \in 1..Len(Digits) : Digits[i] = ch) - 1
IsDigit(ch) == \E i \in 1..Len(Digits) : Digits[i] = ch

RECURSIVE decimalValue(_, _)
decimalValue(s, acc) ==
    IF s = <<>> THEN acc
    ELSE decimalValue(Tail(s), acc * 10 + DigitValue(Head(s)))

\* the value `undefined` of a destructured element that is not there
Undefined == <<"undefined">>
\* stands for NaN; Number() yields no negative number on the strings of the model
NaN == -1

\* Number(portStr) on undefined, on the empty string and on strings of
\* decimal digits and letters (no sign, blank, exponent or radix prefix)
Number(portStr) ==
    IF portStr = Undefined THEN NaN
    ELSE IF portStr = <<>> THEN 0
    ELSE IF \A i \in 1..Len(portStr) : IsDigit(portStr[i])
    THEN decimalValue(portStr, 0)
    ELSE NaN

DefaultPort == 443

\* const [host, portStr] = reqUrl.split(':'); const port = Number(portStr) || 443;
parseTarget(reqUrl) ==
    LET parts == split(reqUrl, ":")
        portStr == IF Len(parts) >= 2 THEN parts[2] ELSE Undefined
        n == Number(portStr)
    IN  [host |-> parts[1],
         port |-> IF n = NaN \/ n = 0 THEN DefaultPort ELSE n]

\* net.connect(port, host, cb) validates the port before any I/O and throws
\* a RangeError, synchronously, for a port above 65535
netConnectThrows(port) == port > 65535

(***************************************************************************)
(* The inputs the environment offers.                                      *)
(***************************************************************************)
SeqsUpTo(S, n) == UNION { [1..k -> S] : k \in 0..n }

\* lines a rule file is made of
Lines == { <<"a">>, <<"b", "/", "p", "*">>, <<"#", "a">> }

\* what a load can find in place of the rule file
Files ==
    {MissingFile, UnreadableFile} \cup { TextFile(ls) : ls \in SeqsUpTo(Lines, MaxLines) }

\* Host headers of HTTP requests; <<>> is a request without one
HostHeaders == { <<>>, <<"a", "b", "c">>, <<"B">> }

\* req.path
Paths == { <<"/", "p">> }

\* req.url of CONNECT requests
Targets ==
    { <<"a", "b", "c", ":", "4", "4", "3">>,
      <<"B">>,
      <<"b", ":", "9", "9", "9", "9", "9">> }

\* the richer inputs of the evaluation specification
EvalLines ==
    { <<"a">>, <<"a", "b">>, <<"*", ".", "b">>, <<"b", "/", "p">>,
      <<"b", "/", "p", "*">>, <<"#", "a">>, <<" ", "B", " ">>, <<" ">> }

EvalFiles == { TextFile(ls) : ls \in SeqsUpTo(EvalLines, MaxEvalLines) }

EvalHostHeaders ==
    { <<>>, <<"a", "b", "c">>, <<"b">>, <<"c", ".", "B">>, <<"c">> }

EvalPaths == { <<"/">>, <<"/", "p">>, <<"/", "p", "/", "q">> }

EvalTargets ==
    { <<"a", "b", "c", ":", "4", "4", "3">>,
      <<"B">>,
      <<"c", ".", "b", ":", "8", "0">>,
      <<"c", ":", "x">>,
      <<"b", ":", "9", "9", "9", "9", "9">> }

\* one line of each syntax the rule file is documented to accept, with
\* letter-case variants of the host part
RuleLines ==
    { <<"*", ".", "b">>, <<"*", ".", "B">>,
      <<"b", "/", "p">>, <<"B", "/", "p">>, <<"b", "/", "p", "*">>,
      <<"a">>, <<"A">>,
      <<"r", "e", "g", "e", "x", ":", "b">> }

RuleFiles == { TextFile(ls) : ls \in SeqsUpTo(RuleLines, MaxRuleLines) }

RuleHostHeaders ==
    { <<"b">>, <<"B">>, <<"a", ".", "b">>, <<"a", ".", "a", ".", "b">>,
      <<"a", "b">>, <<"c">> }

RulePaths == { <<"/">>, <<"/", "p">>, <<"/", "p", "/", "q">>, <<"/", "p", "q">> }

RuleTargets ==
    { <<"a", ".", "b", ":", "4", "4", "3">>,
      <<"c", ":", "4", "4", "3">>,
      <<"B">>,
      <<"b", ":", "8", "0">>,
      <<"b", ":", "0">>,
      <<"c", ":", "x">>,
      <<"b", ":">> }

\* lines a load keeps and lines it drops
CompileLines ==
    { <<"a">>, <<" ", "*", ".", "b", " ">>, <<"b", "/", "p">>,
      <<" ">>, <<"#", "a">>,
      <<"r", "e", "g", "e", "x", ":", "(">> }

CompileFiles ==
    {MissingFile, UnreadableFile}
        \cup { TextFile(ls) : ls \in SeqsUpTo(CompileLines, MaxCompileLines) }

\* rule files and CONNECT targets of the reload specification: the rule a
\* blocks the host of every target
ReloadFiles == { MissingFile, TextFile(<<>>), TextFile(<< <<"a">> >>) }

ReloadTargets ==
    { <<"a", "b", "c", ":", "4", "4", "3">>, <<"A">> }

\* the rule files the tunnel specification starts from
TunnelFiles ==
    { TextFile(<<>>), TextFile(<< <<"a">> >>), TextFile(<< <<"b", "/", "p", "*">> >>) }

Conns == 1..MaxConns

\* filename argument of the fs.watch callback
FileNames == {"blacklist.txt", "other.txt"}

(***************************************************************************)
(* State.                                                                  *)
(***************************************************************************)
VARIABLES
    pc,        \* top level of the module: "load" before loadLists() of line 114,
               \* "listening" once the watcher and the server are set up,
               \* "exited" after an uncaught exception
    access,    \* the AccessLists object: blacklistRules, version
    lastLoad,  \* history: version and read of the last loadLists that published
    watch,     \* the fs.watch event waiting for its callback, "none" if none
    tun,       \* per CONNECT request: position of its callbacks, both sockets,
               \* the socket calls made for it so far, the head buffer the
               \* callback of net.connect holds
    last       \* what the handler that ran last read and answered

vars == <<pc, access, lastLoad, watch, tun, last>>

NoOutput == [type |-> "none"]

NoTunnel ==
    [st |-> "INIT", client |-> "open", upstream |-> "none", log |-> <<>>,
     head |-> FALSE]

Init ==
    /\ pc = "load"
    /\ access = [blacklistRules |-> <<>>, version |-> 0]
    /\ lastLoad = [version |-> 0, file |-> NoRead]
    /\ watch = "none"
    /\ tun = [c \in Conns |-> NoTunnel]
    /\ last = NoOutput

(***************************************************************************)
(* The rule store.                                                         *)
(***************************************************************************)
\* loadLists pushing the new rules onto the array that is already published
loadListsInPlace(file) ==
    IF file.kind = "unreadable"
    THEN UNCHANGED <<access, lastLoad>>
    ELSE /\ access' = [blacklistRules |-> access.blacklistRules \o compileRules(file),
                       version |-> access.version + 1]
         /\ lastLoad' = [version |-> access.version + 1, file |-> file]

\* loadLists without access.version++
loadListsNoIncrement(file) ==
    IF file.kind = "unreadable"
    THEN UNCHANGED <<access, lastLoad>>
    ELSE /\ access' = [blacklistRules |-> compileRules(file),
                       version |-> access.version]
         /\ lastLoad' = [version |-> access.version, file |-> file]

\* loadLists with access.version++ ahead of the read, outside what the
\* exception of the read skips
loadListsVersionFirst(file) ==
    IF file.kind = "unreadable"
    THEN /\ access' = [access EXCEPT !.version = @ + 1]
         /\ UNCHANGED lastLoad
    ELSE /\ access' = [blacklistRules |-> compileRules(file),
                       version |-> access.version + 1]
         /\ lastLoad' = [version |-> access.version + 1, file |-> file]

\* the body of loadLists: an exception of readFileSync leaves access as it
\* is; otherwise the new array and the incremented version are assigned
\* with nothing running in between
loadLists(file) ==
    IF file.kind = "unreadable"
    THEN UNCHANGED <<access, lastLoad>>
    ELSE /\ access' = [blacklistRules |-> compileRules(file),
                       version |-> access.version + 1]
         /\ lastLoad' = [version |-> access.version + 1, file |-> file]

\* lines 114-121 and 213: the first load, then the watcher and the server
StartupFrom(files) ==
    /\ pc = "load"
    /\ \E file \in files : loadLists(file)
    /\ pc' = "listening"
    /\ last' = NoOutput
    /\ UNCHANGED <<watch, tun>>

Startup == StartupFrom(Files)

\* the environment changes something in CONFIG_DIR
FileChange ==
    /\ pc = "listening"
    /\ watch = "none"
    /\ access.version < MaxVersion
    /\ \E filename \in FileNames : watch' = filename
    /\ last' = NoOutput
    /\ UNCHANGED <<pc, access, lastLoad, tun>>

\* the fs.watch callback destroying the sockets of the tunnels in progress
\* when it reloads
WatchCallbackFromResetTunnels(files) ==
    /\ pc = "listening"
    /\ watch # "none"
    /\ IF watch = "blacklist.txt"
       THEN /\ \E file \in files : loadLists(file)
            /\ tun' = [c \in Conns |->
                         IF tun[c].st \in {"CONNECTING", "ESTABLISHED"}
                         THEN [tun[c] EXCEPT !.st = "CLOSED", !.client = "closed",
                                             !.upstream = "closed"]
                         ELSE tun[c]]
       ELSE UNCHANGED <<access, lastLoad, tun>>
    /\ watch' = "none"
    /\ last' = NoOutput
    /\ UNCHANGED pc

\* the fs.watch callback
WatchCallbackFrom(files) ==
    /\ pc = "listening"
    /\ watch # "none"
    /\ IF watch = "blacklist.txt"
       THEN \E file \in files : loadLists(file)
       ELSE UNCHANGED <<access, lastLoad>>
    /\ watch' = "none"
    /\ last' = NoOutput
    /\ UNCHANGED <<pc, tun>>

WatchCallback == WatchCallbackFrom(Files)

\* the body res.json() is given
healthBody(a) ==
    [type |-> "health",
     listsVersion |-> a.version,
     blacklistRules |-> [i \in 1..Len(a.blacklistRules) |-> a.blacklistRules[i].raw]]

\* app.get('/health')
Health ==
    /\ pc = "listening"
    /\ last' = healthBody(access)
    /\ UNCHANGED <<pc, access, lastLoad, watch, tun>>

(***************************************************************************)
(* The access control middleware.                                          *)
(***************************************************************************)
\* the response of the middleware: 400, 403 or the call of next()
middleware(rules, hostHeaderRaw, path) ==
    LET hostHeaderLower == toLowerCase(hostHeaderRaw)
        pathPart == IF path = <<>> THEN <<"/">> ELSE path
        m == httpRuleLoop(rules, 1, hostHeaderLower, pathPart)
    IN  IF hostHeaderLower = <<>>
        THEN [status |-> "400", matched |-> 0, rule |-> <<>>]
        ELSE IF m # 0
        THEN [status |-> "403", matched |-> m, rule |-> rules[m].raw]
        ELSE [status |-> "next", matched |-> 0, rule |-> <<>>]

HttpRequestFrom(hosts, paths) ==
    /\ pc = "listening"
    /\ \E hostHeaderRaw \in hosts, path \in paths :
          LET r == middleware(access.blacklistRules, hostHeaderRaw, path) IN
          last' = [type |-> "http", host |-> hostHeaderRaw, path |-> path,
                   rules |-> access.blacklistRules, version |-> access.version,
                   status |-> r.status, matched |-> r.matched, rule |-> r.rule]
    /\ UNCHANGED <<pc, access, lastLoad, watch, tun>>

HttpRequest == HttpRequestFrom(HostHeaders, Paths)

(***************************************************************************)
(* The CONNECT handler and the callbacks it registers.                     *)
(*                                                                         *)
(* A socket is "open", "wEnded" (end() was called on it: its writable side *)
(* is finished, it still reads), "rEnded" (the peer's FIN was read, it     *)
(* still writes) or "closed".  The client socket belongs to the HTTP       *)
(* server, which keeps it half-open after the peer's FIN; the upstream     *)
(* socket of net.connect ends itself when it reads the peer's FIN.         *)
(***************************************************************************)
\* socket.end()
endSocket(sock) ==
    CASE sock = "open" -> "wEnded"
      [] sock = "rEnded" -> "closed"
      [] OTHER -> sock

\* the peer's FIN read on a socket that allows half-open
peerFin(sock) ==
    CASE sock = "open" -> "rEnded"
      [] sock = "wEnded" -> "closed"
      [] OTHER -> sock

\* ESTABLISHED -> CLOSED once both sockets are closed
settle(t) ==
    IF t.st = "ESTABLISHED" /\ t.client = "closed" /\ t.upstream = "closed"
    THEN [t EXCEPT !.st = "CLOSED"]
    ELSE t

\* the handler without the return that follows clientSocket.destroy()
connectHandlerNoReturn(rules, reqUrl, head) ==
    LET t == parseTarget(reqUrl)
        targetHostLower == toLowerCase(t.host)
        m == connectRuleLoop(rules, 1, targetHostLower)
        refused == IF m # 0 THEN <<"client.write 403", "client.destroy">> ELSE <<>>
    IN  IF netConnectThrows(t.port)
        THEN [st |-> "CONNECT_FAILED", client |-> "closed", upstream |-> "none",
              log |-> refused \o <<"net.connect", "throw", "client.write 502", "client.destroy">>,
              head |-> FALSE]
        ELSE [st |-> "CONNECTING", client |-> IF m # 0 THEN "closed" ELSE "open",
              upstream |-> "connecting",
              log |-> refused \o <<"net.connect">>, head |-> head]

\* the handler testing the rules on the whole target, port segment included
connectHandlerWholeTarget(rules, reqUrl, head) ==
    LET t == parseTarget(reqUrl)
        m == connectRuleLoop(rules, 1, toLowerCase(reqUrl))
    IN  IF m # 0
        THEN [st |-> "BLOCKED", client |-> "closed", upstream |-> "none",
              log |-> <<"client.write 403", "client.destroy">>, head |-> FALSE]
        ELSE IF netConnectThrows(t.port)
        THEN [st |-> "CONNECT_FAILED", client |-> "closed", upstream |-> "none",
              log |-> <<"net.connect", "throw", "client.write 502", "client.destroy">>,
              head |-> FALSE]
        ELSE [st |-> "CONNECTING", client |-> "open", upstream |-> "connecting",
              log |-> <<"net.connect">>, head |-> head]

\* the body of server.on('connect'): the tunnel it leaves behind
connectHandler(rules, reqUrl, head) ==
    LET t == parseTarget(reqUrl)
        targetHostLower == toLowerCase(t.host)
        m == connectRuleLoop(rules, 1, targetHostLower)
    IN  IF m # 0
        THEN [st |-> "BLOCKED", client |-> "closed", upstream |-> "none",
              log |-> <<"client.write 403", "client.destroy">>, head |-> FALSE]
        ELSE IF netConnectThrows(t.port)
        THEN [st |-> "CONNECT_FAILED", client |-> "closed", upstream |-> "none",
              log |-> <<"net.connect", "throw", "client.write 502", "client.destroy">>,
              head |-> FALSE]
        ELSE [st |-> "CONNECTING", client |-> "open", upstream |-> "connecting",
              log |-> <<"net.connect">>, head |-> head]

ConnectFrom(c, targets) ==
    /\ pc = "listening"
    /\ tun[c].st = "INIT"
    /\ \A d \in Conns : d < c => tun[d].st # "INIT"
    /\ \E reqUrl \in targets, head \in BOOLEAN :
          LET t == parseTarget(reqUrl)
              m == connectRuleLoop(access.blacklistRules, 1, toLowerCase(t.host))
          IN  /\ tun' = [tun EXCEPT ![c] = connectHandler(access.blacklistRules, reqUrl, head)]
              /\ last' = [type |-> "connect", conn |-> c, target |-> reqUrl,
                          rules |-> access.blacklistRules, version |-> access.version,
                          matched |-> m,
                          rule |-> IF m # 0 THEN access.blacklistRules[m].raw ELSE <<>>,
                          host |-> t.host, port |-> t.port]
    /\ UNCHANGED <<pc, access, lastLoad, watch>>

Connect(c) == ConnectFrom(c, Targets)

\* the callback forwarding the head before it answers the client
connectListenerHeadFirst(head) ==
    <<"connected">>
        \o (IF head THEN <<"upstream.write head">> ELSE <<>>)
        \o <<"client.write 200", "pipe">>

\* the socket calls of the callback of net.connect, in order
connectListener(head) ==
    <<"connected", "client.write 200">>
        \o (IF head THEN <<"upstream.write head">> ELSE <<>>)
        \o <<"pipe">>

\* the outbound connection is made: the callback given to net.connect
ConnectCallback(c) ==
    /\ pc = "listening"
    /\ tun[c].st = "CONNECTING"
    /\ tun' = [tun EXCEPT ![c] = [@ EXCEPT !.st = "ESTABLISHED",
                                           !.upstream = "open",
                                           !.log = @ \o connectListener(tun[c].head)]]
    /\ last' = NoOutput
    /\ UNCHANGED <<pc, access, lastLoad, watch>>

\* the error listener answering 502 before it ends the client socket
onUpstreamErrorWrite502(t) ==
    settle([t EXCEPT !.st = IF t.st = "CONNECTING" THEN "CONNECT_FAILED" ELSE t.st,
                     !.upstream = "closed",
                     !.client = endSocket(t.client),
                     !.log = @ \o <<"upstream error", "client.write 502", "client.end">>])

\* serverSocket.on('error'): the socket that failed is destroyed by Node,
\* the handler ends the client socket
onUpstreamError(t) ==
    settle([t EXCEPT !.st = IF t.st = "CONNECTING" THEN "CONNECT_FAILED" ELSE t.st,
                     !.upstream = "closed",
                     !.client = endSocket(t.client),
                     !.log = @ \o <<"upstream error", "client.end">>])

UpstreamError(c) ==
    /\ pc = "listening"
    /\ tun[c].upstream \in {"connecting", "open", "wEnded"}
    /\ tun' = [tun EXCEPT ![c] = onUpstreamError(tun[c])]
    /\ last' = NoOutput
    /\ UNCHANGED <<pc, access, lastLoad, watch>>

\* serverSocket.pipe(clientSocket) at the end of the upstream's data: the
\* upstream socket ends itself and closes, pipe ends the client socket
onUpstreamEnd(t) ==
    settle([t EXCEPT !.upstream = "closed",
                     !.client = endSocket(t.client),
                     !.log = @ \o <<"client.end">>])

UpstreamEnd(c) ==
    /\ pc = "listening"
    /\ tun[c].st = "ESTABLISHED"
    /\ tun[c].upstream \in {"open", "wEnded"}
    /\ tun' = [tun EXCEPT ![c] = onUpstreamEnd(tun[c])]
    /\ last' = NoOutput
    /\ UNCHANGED <<pc, access, lastLoad, watch>>

\* clientSocket.pipe(serverSocket) at the end of the client's data: pipe
\* ends the upstream socket, the client socket stays writable
onClientEnd(t) ==
    settle([t EXCEPT !.client = peerFin(t.client),
                     !.upstream = endSocket(t.upstream),
                     !.log = @ \o <<"upstream.end">>])

ClientEnd(c) ==
    /\ pc = "listening"
    /\ tun[c].st = "ESTABLISHED"
    /\ tun[c].client \in {"open", "wEnded"}
    /\ tun' = [tun EXCEPT ![c] = onClientEnd(tun[c])]
    /\ last' = NoOutput
    /\ UNCHANGED <<pc, access, lastLoad, watch>>

\* an 'error' event of the client socket: the handler registers no listener
\* for it and the HTTP server removed its own before it emitted 'connect',
\* so the event is thrown as an uncaught exception and the process exits;
\* the operating system closes every socket
ClientError(c) ==
    /\ pc = "listening"
    /\ tun[c].st \in {"CONNECTING", "ESTABLISHED", "CONNECT_FAILED"}
    /\ tun[c].client # "closed"
    /\ pc' = "exited"
    /\ tun' = [d \in Conns |->
                 settle([tun[d] EXCEPT !.client = "closed",
                                       !.upstream = IF @ = "none" THEN "none" ELSE "closed"])]
    /\ last' = NoOutput
    /\ UNCHANGED <<access, lastLoad, watch>>

(***************************************************************************)
(* The server.                                                             *)
(***************************************************************************)
Next ==
    \/ Startup
    \/ FileChange
    \/ WatchCallback
    \/ Health
    \/ HttpRequest
    \/ \E c \in Conns : Connect(c)
    \/ \E c \in Conns : ConnectCallback(c)
    \/ \E c \in Conns : UpstreamError(c)
    \/ \E c \in Conns : UpstreamEnd(c)
    \/ \E c \in Conns : ClientEnd(c)
    \/ \E c \in Conns : ClientError(c)

Spec == Init /\ [][Next]_vars

\* the event loop runs every callback that is due: the first load and the
\* callback of a delivered fs.watch event; nothing is assumed of the peers
LiveSpec == Spec /\ WF_vars(Startup) /\ WF_vars(WatchCallback)

(***************************************************************************)
(* The store under reloads and requests: the steps that read or write       *)
(* access.  The socket callbacks of a tunnel read and write tun alone and   *)
(* are left out.                                                            *)
(***************************************************************************)
StoreNext ==
    \/ Startup
    \/ FileChange
    \/ WatchCallback
    \/ Health
    \/ HttpRequest
    \/ \E c \in Conns : Connect(c)

StoreSpec == Init /\ [][StoreNext]_vars

(***************************************************************************)
(* Loads alone, over files of kept and dropped lines, read back by /health. *)
(***************************************************************************)
CompileStartup == StartupFrom(CompileFiles)

CompileWatchCallback == WatchCallbackFrom(CompileFiles)

CompileNext ==
    \/ CompileStartup
    \/ FileChange
    \/ CompileWatchCallback
    \/ Health

CompileSpec == Init /\ [][CompileNext]_vars

(***************************************************************************)
(* The server as it listens after a first load of `file`.                  *)
(***************************************************************************)
Listening(file) ==
    /\ pc = "listening"
    /\ access = [blacklistRules |-> compileRules(file), version |-> 1]
    /\ lastLoad = [version |-> 1, file |-> file]
    /\ watch = "none"
    /\ tun = [c \in Conns |-> NoTunnel]
    /\ last = NoOutput

(***************************************************************************)
(* Decisions alone, over richer rule files and requests: one HTTP request   *)
(* or CONNECT request at a time against a store that is not reloaded.       *)
(***************************************************************************)
EvalInit == \E file \in EvalFiles : Listening(file)

EvalHttpRequest == HttpRequestFrom(EvalHostHeaders, EvalPaths)

EvalConnect == ConnectFrom(1, EvalTargets)

EvalNext == EvalHttpRequest \/ EvalConnect

EvalSpec == EvalInit /\ [][EvalNext]_vars

(***************************************************************************)
(* The rule syntaxes one by one: decisions over files of the documented     *)
(* line forms, hosts in several letter-casings, paths at and around a rule  *)
(* path, and CONNECT targets with and without a port segment.               *)
(***************************************************************************)
RuleInit == \E file \in RuleFiles : Listening(file)

RuleHttpRequest == HttpRequestFrom(RuleHostHeaders, RulePaths)

RuleConnect == ConnectFrom(1, RuleTargets)

RuleNext == RuleHttpRequest \/ RuleConnect

RuleSpec == RuleInit /\ [][RuleNext]_vars

(***************************************************************************)
(* Reloads while tunnels are in progress.                                   *)
(***************************************************************************)
ReloadInit == \E file \in ReloadFiles : Listening(file)

ReloadWatchCallback == WatchCallbackFrom(ReloadFiles)

ReloadConnect(c) == ConnectFrom(c, ReloadTargets)

ReloadNext ==
    \/ FileChange
    \/ ReloadWatchCallback
    \/ \E c \in Conns : ReloadConnect(c)
    \/ \E c \in Conns : ConnectCallback(c)
    \/ \E c \in Conns : UpstreamError(c)
    \/ \E c \in Conns : UpstreamEnd(c)
    \/ \E c \in Conns : ClientEnd(c)

ReloadSpec == ReloadInit /\ [][ReloadNext]_vars

(***************************************************************************)
(* Tunnels alone: CONNECT requests and the callbacks of their sockets       *)
(* against a store that is not reloaded.                                    *)
(***************************************************************************)
TunnelInit == \E file \in TunnelFiles : Listening(file)

TunnelNext ==
    \/ \E c \in Conns : Connect(c)
    \/ \E c \in Conns : ConnectCallback(c)
    \/ \E c \in Conns : UpstreamError(c)
    \/ \E c \in Conns : UpstreamEnd(c)
    \/ \E c \in Conns : ClientEnd(c)
    \/ \E c \in Conns : ClientError(c)

TunnelSpec == TunnelInit /\ [][TunnelNext]_vars

(***************************************************************************)
(* Properties.                                                             *)
(***************************************************************************)
PathKinds == {"host-exact-path", "host-subtree-path"}

\* a rule is eligible in HTTP mode whatever its kind, in tunnel mode unless
\* it needs a path
Eligible(rule, mode) == mode = "http" \/ rule.kind \notin PathKinds

\* the positions of the eligible rules that match
MatchSet(rules, mode, hostLower, path) ==
    { i \in 1..Len(rules) : Eligible(rules[i], mode) /\ test(rules[i], hostLower, path) }

Min(S) == CHOOSE x \in S : \A y \in S : x <= y

Decided == last.type \in {"http", "connect"}

\* the eligible matches of the request `last` records, over `rules`
LastMatchSet(rules) ==
    IF last.type = "http"
    THEN MatchSet(rules, "http", toLowerCase(last.host), last.path)
    ELSE MatchSet(rules, "tunnel", toLowerCase(last.host), <<>>)

\* the request `last` records was blocked by a rule
LastBlocked ==
    IF last.type = "http" THEN last.status = "403"
    ELSE tun[last.conn].st = "BLOCKED"

Has(l, e) == \E i \in 1..Len(l) : l[i] = e

Count(l, e) == Cardinality({ i \in 1..Len(l) : l[i] = e })

\* C1: first match wins. A request that carries a host (HTTP or CONNECT) is
\* blocked exactly when some eligible rule of the sequence it was evaluated
\* against matches it, and the rule reported for the block is the eligible
\* matching rule of the least position in file order.
C1_FirstMatchWins ==
    (Decided /\ last.host # <<>>) =>
        LET S == LastMatchSet(last.rules) IN
        /\ LastBlocked <=> S # {}
        /\ S = {} => last.matched = 0 /\ last.rule = <<>>
        /\ S # {} => last.matched = Min(S) /\ last.rule = last.rules[Min(S)].raw

\* rules [substring "a", substring "ab"], host "abc": both match, the first is reported
C1_Witness ==
    /\ last.type = "http"
    /\ last.host = <<"a", "b", "c">>
    /\ Len(last.rules) = 2
    /\ last.rules[1].raw = <<"a">>
    /\ last.rules[2].raw = <<"a", "b">>
    /\ LastMatchSet(last.rules) = {1, 2}
    /\ last.status = "403"
    /\ last.rule = <<"a">>

\* C2: a CONNECT evaluated against a sequence of nothing but host-exact-path
\* and host-subtree-path rules is not blocked, whatever its host: no 403 is
\* written and net.connect is called.
C2_PathRulesNeverApplyToConnect ==
    (/\ last.type = "connect"
     /\ \A i \in 1..Len(last.rules) : last.rules[i].kind \in PathKinds) =>
        LET t == tun[last.conn] IN
        /\ t.st # "BLOCKED"
        /\ last.matched = 0
        /\ ~Has(t.log, "client.write 403")
        /\ Count(t.log, "net.connect") = 1

\* a CONNECT to the very host of the two path rules it is evaluated against
C2_Witness ==
    /\ last.type = "connect"
    /\ Len(last.rules) = 2
    /\ last.rules[1].kind = "host-exact-path"
    /\ last.rules[2].kind = "host-subtree-path"
    /\ toLowerCase(last.host) = last.rules[1].host
    /\ toLowerCase(last.host) = last.rules[2].host
    /\ tun[last.conn].st = "CONNECTING"

\* the rule sequence the last publishing load compiled from its read of the
\* file; the empty sequence the store is constructed with before any load
PublishedRules ==
    IF lastLoad.version = 0 THEN <<>> ELSE compileRules(lastLoad.file)

\* C3: reload atomicity. Every decision is computed against the one rule
\* sequence that the latest publishing load compiled, complete and alone,
\* and in the version that load published: the outcome is the one that
\* sequence gives, never that of rules of two loads.
C3_ReloadAtomicity ==
    Decided =>
        /\ last.rules = PublishedRules
        /\ last.version = lastLoad.version
        /\ last.host # <<>> => (LastBlocked <=> LastMatchSet(PublishedRules) # {})

\* a CONNECT let through under version 1, and after the reload a CONNECT
\* blocked under version 2
C3_Witness ==
    /\ last.type = "connect"
    /\ last.conn = 2
    /\ last.version = 2
    /\ tun[1].st = "CONNECTING"
    /\ tun[2].st = "BLOCKED"
    /\ last.rules = compileRules(lastLoad.file)

\* C4: the version starts at 0; no step lowers it; a step that changes the
\* store or publishes sets it to the version before + 1, which is the
\* version of that publication, so no version is published twice.
C4_VersionStrictlyIncreases ==
    /\ access.version = 0
    /\ [][/\ access'.version >= access.version
          /\ access' # access => access'.version = access.version + 1
          /\ lastLoad' # lastLoad =>
                /\ lastLoad'.version = access.version + 1
                /\ access'.version = access.version + 1]_vars

\* two loads have published
C4_Witness == access.version = 2 /\ lastLoad.version = 2

\* the health body that the read of the last publishing load gives
PublishedHealth ==
    [type |-> "health",
     listsVersion |-> lastLoad.version,
     blacklistRules |-> [i \in 1..Len(PublishedRules) |-> PublishedRules[i].raw]]

C6_BlockedConnect ==
    /\ (last.type = "connect" /\ LastMatchSet(last.rules) # {}) =>
          /\ tun[last.conn].st = "BLOCKED"
          /\ tun[last.conn].log = <<"client.write 403", "client.destroy">>
    /\ \A c \in Conns :
          Has(tun[c].log, "client.write 403") =>
              /\ tun[c].client = "closed"
              /\ tun[c].upstream = "none"
              /\ ~Has(tun[c].log, "net.connect")

\* a CONNECT to abc is refused by the rule "a" while another tunnel is connecting
C6_Witness ==
    /\ last.type = "connect"
    /\ last.rule = <<"a">>
    /\ tun[last.conn].st = "BLOCKED"
    /\ \E c \in Conns : tun[c].st = "BLOCKED" /\ tun[c].log[1] = "client.write 403"

\* C7 as stated: a CONNECT that was let through and whose outbound
\* connection failed has the 502 line written, its client socket closed
\* and net.connect called once.
C7_AsStated ==
    \A c \in Conns :
        tun[c].st = "CONNECT_FAILED" =>
            /\ Has(tun[c].log, "client.write 502")
            /\ tun[c].client = "closed"
            /\ Count(tun[c].log, "net.connect") <= 1

\* C8: on every tunnel the 200 line is written only after the outbound
\* connection is made, the head and the pipes come only after the 200 line,
\* the pipes after the head when there is one; an established tunnel has
\* the 200 line and the pipes, and the head written exactly when it is not
\* empty.
C8_EstablishOrder ==
    \A c \in Conns :
        LET l == tun[c].log
            Before(a, b) ==
                \A i \in 1..Len(l) : l[i] = b => \E j \in 1..(i - 1) : l[j] = a
        IN  /\ Before("net.connect", "connected")
            /\ Before("connected", "client.write 200")
            /\ Before("client.write 200", "upstream.write head")
            /\ Before("client.write 200", "pipe")
            /\ tun[c].head => Before("upstream.write head", "pipe")
            /\ tun[c].st \in {"ESTABLISHED", "CLOSED"} =>
                  /\ Count(l, "client.write 200") = 1
                  /\ Has(l, "pipe")
                  /\ tun[c].head <=> Has(l, "upstream.write head")

\* a tunnel just established with a head to forward
C8_Witness ==
    \E c \in Conns :
        /\ tun[c].st = "ESTABLISHED"
        /\ tun[c].head
        /\ tun[c].log = <<"net.connect", "connected", "client.write 200",
                          "upstream.write head", "pipe">>

\* C9 as stated: an established tunnel one of whose sockets has signalled
\* close or error (so that not both are open any more) is CLOSED, with
\* both sockets closed.
C9_AsStated ==
    \A c \in Conns :
        (/\ tun[c].st \in {"ESTABLISHED", "CLOSED"}
         /\ tun[c].client # "open" \/ tun[c].upstream # "open") =>
            /\ tun[c].st = "CLOSED"
            /\ tun[c].client = "closed"
            /\ tun[c].upstream = "closed"

\* C10 as stated: a tunnel of the running server that is CONNECTING leaves
\* CONNECTING.
C10_AsStated ==
    \A c \in Conns :
        (pc = "listening" /\ tun[c].st = "CONNECTING")
            ~> (pc # "listening" \/ tun[c].st # "CONNECTING")

(***************************************************************************)
(* Rule syntax.                                                            *)
(***************************************************************************)
RegexPrefix == <<"r", "e", "g", "e", "x", ":">>

IsRegexLine(raw) == startsWith(raw, RegexPrefix)

\* the pattern a regex line carries
RegexPattern(raw) == sliceFrom(raw, Len(RegexPrefix))

\* an unanchored pattern of literal characters, matched case-insensitively,
\* is found in a host exactly when the host contains it
RegexMatches(pattern, host) == includes(toLowerCase(host), toLowerCase(pattern))

\* every rule of a non-empty sequence satisfies P
AllRules(rules, P(_)) == rules # <<>> /\ \A i \in 1..Len(rules) : P(rules[i])

RuleOfRegexLine(rule) == IsRegexLine(rule.raw)

\* C11, as stated: a line beginning with regex: is compiled into a regex rule,
\* not into a substring, subdomain or path rule, and a request is blocked by
\* such rules exactly when the pattern of one of them matches its host,
\* case-insensitively.
C11_AsStated ==
    (Decided /\ last.host # <<>> /\ AllRules(last.rules, RuleOfRegexLine)) =>
        /\ \A i \in 1..Len(last.rules) :
              last.rules[i].kind \notin {"host-substring", "subdomain"} \cup PathKinds
        /\ LastBlocked <=>
              \E i \in 1..Len(last.rules) :
                 RegexMatches(RegexPattern(last.rules[i].raw), last.host)

\* a pattern with a group that is opened and never closed does not compile
Malformed(pattern) == Count(pattern, "(") # Count(pattern, ")")

\* a line that compiles into a rule without fault
Compiles(line) == ~(IsRegexLine(trim(line)) /\ Malformed(RegexPattern(trim(line))))

\* a line that is neither blank nor a comment, and compiles
KeptLine(line) ==
    /\ trim(line) # <<>>
    /\ ~startsWith(trim(line), <<"#">>)
    /\ Compiles(line)

\* C12, as stated: after a reload of a readable file the published rules are
\* the non-blank, non-comment lines that compile without fault, one rule per
\* line in file order; a line with a malformed pattern (regex:( ) is dropped
\* alone and is not counted.
C12_AsStated ==
    (lastLoad.version > 0 /\ lastLoad.file.kind = "text") =>
        LET kept == SelectSeq(lastLoad.file.lines, KeptLine) IN
        /\ access.version = lastLoad.version
        /\ Len(access.blacklistRules) = Len(kept)
        /\ \A i \in 1..Len(kept) : access.blacklistRules[i].raw = trim(kept[i])

(***************************************************************************)
(* Configuration errors.                                                   *)
(***************************************************************************)
\* a step in which loadLists ran: the first load or a reload by the watcher
LoadStep ==
    \/ pc = "load" /\ pc' = "listening"
    \/ watch = "blacklist.txt" /\ watch' = "none"

\* the load found no rule file, or could not read it (a read that throws
\* records nothing)
ConfigErrorFound == lastLoad'.file.kind = "missing" \/ lastLoad' = lastLoad

\* C13, as stated: a load that meets a configuration error (rule file missing
\* or unreadable) is not fatal and leaves the store with the empty rule
\* sequence, so that no rule of an earlier load can block a request.
C13_AsStated ==
    [][(LoadStep /\ ConfigErrorFound) =>
          (pc' = "listening" /\ access'.blacklistRules = <<>>)]_vars

(***************************************************************************)
(* Fault isolation.                                                        *)
(***************************************************************************)
\* a step in which connection c fails: its outbound connection fails, its
\* client socket emits 'error', or its handler throws
FaultStep(c) ==
    \/ UpstreamError(c)
    \/ ClientError(c)
    \/ Connect(c) /\ tun'[c].st = "CONNECT_FAILED"

\* C14, as stated: a failure of one connection is contained to it. The
\* process is not terminated, the rule store is not changed and no other
\* connection changes state.
C14_AsStated ==
    [][\A c \in Conns :
          FaultStep(c) =>
             /\ pc' = "listening"
             /\ access' = access
             /\ \A d \in Conns \ {c} : tun'[d] = tun[d]]_vars

(***************************************************************************)
(* Subdomain rules.                                                        *)
(***************************************************************************)
RuleOfSubdomainLine(rule) == startsWith(rule.raw, <<"*", ".">>)

\* the S of a line *.S
SubdomainOf(raw) == toLowerCase(SubSeq(raw, 3, Len(raw)))

\* H is S with at least one label in front
IsSubdomainHost(H, S) ==
    /\ H # S
    /\ \E k \in 1..Len(H) : SubSeq(H, k, Len(H)) = <<".">> \o S

\* the answer a decided request got is the one of a block
Refused ==
    IF last.type = "http" THEN last.status = "403"
    ELSE /\ tun[last.conn].st = "BLOCKED"
         /\ tun[last.conn].log = <<"client.write 403", "client.destroy">>

\* the request went on: next() was called, or net.connect was
Forwarded ==
    IF last.type = "http" THEN last.status = "next"
    ELSE /\ tun[last.conn].st \in {"CONNECTING", "CONNECT_FAILED"}
         /\ Head(tun[last.conn].log) = "net.connect"

\* C15: subdomain rules. Against rules *.S, an HTTP request or a CONNECT
\* request for host H is refused with 403 exactly when, for one of them, H
\* ends with "." followed by S and is not S itself; otherwise it goes on.
C15_SubdomainRule ==
    (Decided /\ last.host # <<>> /\ AllRules(last.rules, RuleOfSubdomainLine)) =>
        LET hit == \E i \in 1..Len(last.rules) :
                      IsSubdomainHost(toLowerCase(last.host),
                                      SubdomainOf(last.rules[i].raw))
        IN  /\ hit => Refused
            /\ ~hit => Forwarded

\* rule *.b: CONNECT a.b:443 is answered 403 and the socket destroyed
C15_Witness ==
    /\ last.type = "connect"
    /\ last.target = <<"a", ".", "b", ":", "4", "4", "3">>
    /\ Len(last.rules) = 1
    /\ last.rules[1].raw = <<"*", ".", "b">>
    /\ tun[1].st = "BLOCKED"
    /\ tun[1].log = <<"client.write 403", "client.destroy">>

(***************************************************************************)
(* Path rules.                                                             *)
(***************************************************************************)
\* the position of the first "/" of a line that has one
SlashAt(raw) == CHOOSE k \in 1..Len(raw) :
                   raw[k] = "/" /\ \A j \in 1..(k - 1) : raw[j] # "/"

IsPathLine(raw) ==
    /\ ~startsWith(raw, <<"*", ".">>)
    /\ \E k \in 1..Len(raw) : raw[k] = "/"

IsSubtreeLine(raw) == IsPathLine(raw) /\ raw[Len(raw)] = "*"

IsExactLine(raw) == IsPathLine(raw) /\ raw[Len(raw)] # "*"

\* the host of a line host/path or host/path*
LineHost(raw) == toLowerCase(SubSeq(raw, 1, SlashAt(raw) - 1))

\* the path of a line host/path, and of host/path* without its star
LinePath(raw) ==
    IF raw[Len(raw)] = "*" THEN SubSeq(raw, SlashAt(raw), Len(raw) - 1)
    ELSE SubSeq(raw, SlashAt(raw), Len(raw))

RuleOfExactLine(rule) == IsExactLine(rule.raw)

\* path is P itself or lies below it
AtOrBelow(path, P) ==
    \/ path = P
    \/ Len(path) > Len(P) /\ SubSeq(path, 1, Len(P) + 1) = P \o <<"/">>

\* C16: path rules in HTTP mode. Against exact rules host/path, a request is
\* answered 403 exactly when, for one of them, its host is the rule host and
\* its path is the rule path; and a request to the host of a subtree rule
\* host/path* whose path is /path or lies below it is answered 403.
C16_PathRules ==
    (last.type = "http" /\ last.host # <<>>) =>
        /\ AllRules(last.rules, RuleOfExactLine) =>
              (last.status = "403" <=>
                  \E i \in 1..Len(last.rules) :
                     /\ toLowerCase(last.host) = LineHost(last.rules[i].raw)
                     /\ last.path = LinePath(last.rules[i].raw))
        /\ (\E i \in 1..Len(last.rules) :
               /\ IsSubtreeLine(last.rules[i].raw)
               /\ toLowerCase(last.host) = LineHost(last.rules[i].raw)
               /\ AtOrBelow(last.path, LinePath(last.rules[i].raw)))
              => last.status = "403"

\* rule b/p* after rule b/p: GET /p/q of host b passes the exact rule and is
\* answered 403 by the subtree rule
C16_Witness ==
    /\ last.type = "http"
    /\ last.host = <<"b">>
    /\ last.path = <<"/", "p", "/", "q">>
    /\ Len(last.rules) = 2
    /\ last.rules[1].raw = <<"b", "/", "p">>
    /\ last.rules[2].raw = <<"b", "/", "p", "*">>
    /\ last.status = "403"
    /\ last.matched = 2

RuleOfSubtreeLine(rule) == IsSubtreeLine(rule.raw)

\* C17, as stated: a subtree rule host/path* matches /path and the paths
\* below it, and no path that only continues the text of its last segment
\* (/pathological): against subtree rules a request is answered 403 exactly
\* when its host is the host of one of them and its path is at or below the
\* path of that rule.
C17_AsStated ==
    (last.type = "http" /\ last.host # <<>>
        /\ AllRules(last.rules, RuleOfSubtreeLine)) =>
        (last.status = "403" <=>
            \E i \in 1..Len(last.rules) :
               /\ toLowerCase(last.host) = LineHost(last.rules[i].raw)
               /\ AtOrBelow(last.path, LinePath(last.rules[i].raw)))

(***************************************************************************)
(* CONNECT targets.                                                        *)
(***************************************************************************)
HasPortSegment(target) == \E k \in 1..Len(target) : target[k] = ":"

ColonAt(target) == CHOOSE k \in 1..Len(target) :
                      target[k] = ":" /\ \A j \in 1..(k - 1) : target[j] # ":"

\* the host segment of host or host:port
HostSegment(target) ==
    IF HasPortSegment(target) THEN SubSeq(target, 1, ColonAt(target) - 1) ELSE target

\* the port segment of host:port
PortSegment(target) == SubSeq(target, ColonAt(target) + 1, Len(target))

IsNumeric(seg) == seg # <<>> /\ \A k \in 1..Len(seg) : IsDigit(seg[k])

RECURSIVE NumericValue(_)
NumericValue(seg) ==
    IF seg = <<>> THEN 0
    ELSE 10 * NumericValue(SubSeq(seg, 1, Len(seg) - 1)) + DigitValue(seg[Len(seg)])

\* the port the target names: its port segment when numeric, else 443
NamedPort(target) ==
    IF HasPortSegment(target) /\ IsNumeric(PortSegment(target))
    THEN NumericValue(PortSegment(target))
    ELSE DefaultPort

\* C19, as stated: a CONNECT request for host or host:port is evaluated
\* against the rules with the host segment alone, and when no rule blocks it
\* net.connect is called with the host segment and with the numeric value of
\* the port segment when that segment is present and numeric, 443 otherwise.
C19_AsStated ==
    last.type = "connect" =>
        /\ last.host = HostSegment(last.target)
        /\ tun[last.conn].st = "BLOCKED" <=>
              MatchSet(last.rules, "tunnel",
                       toLowerCase(HostSegment(last.target)), <<>>) # {}
        /\ tun[last.conn].st # "BLOCKED" =>
              /\ Head(tun[last.conn].log) = "net.connect"
              /\ last.port = NamedPort(last.target)

(***************************************************************************)
(* Letter-case of hosts.                                                   *)
(***************************************************************************)
\* a line with its host part in lower case: the part in front of the path
\* of a path line, the whole of any other line
FoldLine(raw) ==
    IF IsPathLine(raw)
    THEN LineHost(raw) \o SubSeq(raw, SlashAt(raw), Len(raw))
    ELSE toLowerCase(raw)

\* the rules of the file of the last load with every host part in lower case
FoldedRules ==
    compileRules(TextFile([i \in 1..Len(lastLoad.file.lines) |->
                              FoldLine(lastLoad.file.lines[i])]))

\* C20: host matching is case-insensitive. The decision for a host, in HTTP
\* and in CONNECT mode, is the decision for the lower-case spelling of that
\* host against the rule file with every host part written in lower case;
\* so all letter-casings of a host, and all letter-casings of the host part
\* of a rule line, get the same decision, by the same rule position.
C20_HostCaseInsensitive ==
    (Decided /\ last.host # <<>>) =>
        LET S == LastMatchSet(FoldedRules) IN
        /\ LastBlocked <=> S # {}
        /\ last.matched = IF S = {} THEN 0 ELSE Min(S)

\* rule B/p, Host b: the request for /p is answered 403
C20_Witness ==
    /\ last.type = "http"
    /\ last.host = <<"b">>
    /\ last.path = <<"/", "p">>
    /\ Len(last.rules) = 1
    /\ last.rules[1].raw = <<"B", "/", "p">>
    /\ last.status = "403"

(***************************************************************************)
(* Status lines.                                                           *)
(***************************************************************************)
StatusWrites == {"client.write 403", "client.write 200", "client.write 502"}

\* the status lines written to the client socket of a tunnel, in order
StatusLines(t) == SelectSeq(t.log, LAMBDA e : e \in StatusWrites)

\* C21: at most one status line per CONNECT request. The proxy writes to the
\* client socket of a connection no more than one of the lines 403, 200 and
\* 502: never two of them, and never a 403 or a 502 before or after a 200.
C21_OneStatusLine ==
    \A c \in Conns : Len(StatusLines(tun[c])) <= 1

\* a tunnel that was answered 200 and whose outbound socket then failed:
\* the 200 is the only status line it got
C21_Witness ==
    \E c \in Conns :
       /\ StatusLines(tun[c]) = <<"client.write 200">>
       /\ Has(tun[c].log, "upstream error")
       /\ tun[c].upstream = "closed"

(***************************************************************************)
(* Reloads and tunnels in progress.                                        *)
(***************************************************************************)
InProgress(t) == t.st \in {"CONNECTING", "ESTABLISHED"}

\* the published rules refuse a CONNECT request for every target
BlocksEveryTarget(rules) ==
    \A reqUrl \in ReloadTargets :
       connectRuleLoop(rules, 1, toLowerCase(parseTarget(reqUrl).host)) # 0

\* C22: a reload does not change the fate of a tunnel that was already
\* decided. A step in which loadLists runs leaves the state, the sockets and
\* the writes of every tunnel that is CONNECTING or ESTABLISHED as they are,
\* whatever rules it publishes; and a CONNECT request decided after it is
\* decided by the rules it published.
C22_ReloadKeepsTunnels ==
    [][/\ LoadStep => \A c \in Conns : InProgress(tun[c]) => tun'[c] = tun[c]
       /\ (last'.type = "connect" /\ last' # last) =>
             /\ last'.rules = access.blacklistRules
             /\ last'.version = access.version]_vars

\* a tunnel accepted under rules that let it pass is in progress while the
\* rules published by a later reload block the host of every target
C22_Witness ==
    /\ access.version >= 2
    /\ BlocksEveryTarget(access.blacklistRules)
    /\ \E c \in Conns : InProgress(tun[c]) /\ tun[c].client = "open"

(***************************************************************************)
(* The two modes side by side.                                             *)
(***************************************************************************)
\* a rule sequence without its path rules
HostOnlyRules(rules) == SelectSeq(rules, LAMBDA r : r.kind \notin PathKinds)

\* the HTTP-mode answer for Host header H and a path is 403
HttpBlocks(rules, H, path) == middleware(rules, H, path).status = "403"

\* C23: the modes agree. When a CONNECT request for host H is blocked, an
\* HTTP request with the same host string H is blocked by the same rule
\* sequence whatever its path; and the CONNECT request is blocked exactly
\* when HTTP mode blocks H over the sequence without its exact-path and
\* subtree-path rules.
C23_CrossMode ==
    (last.type = "connect" /\ last.host # <<>>) =>
        LET blocked == tun[last.conn].st = "BLOCKED" IN
        \A path \in RulePaths :
           /\ blocked => HttpBlocks(last.rules, last.host, path)
           /\ blocked <=> HttpBlocks(HostOnlyRules(last.rules), last.host, path)

\* rules b/p, *.b: CONNECT a.b:443 is blocked by the second rule, and so is
\* an HTTP request for a.b with any path
C23_Witness ==
    /\ last.type = "connect"
    /\ last.host = <<"a", ".", "b">>
    /\ Len(last.rules) = 2
    /\ last.rules[1].kind = "host-exact-path"
    /\ last.rules[2].kind = "subdomain"
    /\ tun[last.conn].st = "BLOCKED"
    /\ last.matched = 2
    /\ \A path \in RulePaths : HttpBlocks(last.rules, last.host, path)
====
